---- MODULE Spec2Model ----
(***************************************************************************)
(* Model of src/src/force_signal_analysis.py: the four signal functions    *)
(* (compute_sampling_rate, moving_average, butterworth_lowpass,            *)
(* detect_heel_toe) and the script main().                                 *)
(*                                                                         *)
(* Numbers.  Samples and timestamps are integers.  A float64 result is an  *)
(* exact rational, +inf, -inf or nan:                                      *)
(*     [k |-> "fin", n |-> num, d |-> den]   den > 0, lowest terms         *)
(*     [k |-> "inf", n |-> 1 or -1, d |-> 0]                               *)
(*     [k |-> "nan", n |-> 0, d |-> 0]                                     *)
(* Rounding is not modelled: arithmetic on finite values is exact.         *)
(*                                                                         *)
(* Outcomes.  A call either returns or raises:                             *)
(*     [k |-> "return", v |-> value]                                       *)
(*     [k |-> "raise", exc |-> Python exception, at |-> raising call]      *)
(* The source defines no exception classes of its own; every failure is an *)
(* exception raised by Python, numpy, scipy or matplotlib.                 *)
(*                                                                         *)
(* Indices.  TLA+ sequences are 1-based; every index that the code         *)
(* returns or computes is kept 0-based as in Python, so force[i] of the    *)
(* code is force[i + 1] here.                                              *)
(***************************************************************************)
EXTENDS Integers, Sequences, FiniteSets, TLC

VARIABLES pc, call, ret, time, force, fs, slope_raw, ma_force,
          butter_force, detected_on, events, trace

vars == <<pc, call, ret, time, force, fs, slope_raw, ma_force,
          butter_force, detected_on, events, trace>>

(***************************************************************************)
(* Bounds of the model.                                                    *)
(***************************************************************************)
MaxLen == 4
MaxVal == 1
MaxT == 4
MaxWindow == 5
MaxFs == 6
MaxFc == 3
MaxOrder == 2
MaxSigLen == 10
MaxDataLen == 16
MaxStep == 2
MaxPulse == 2

(***************************************************************************)
(* Program constants: the arguments main() passes.                         *)
(***************************************************************************)
MainWindow == 3
MainFc == 8
MainOrder == 4

(***************************************************************************)
(* float64 values.                                                         *)
(***************************************************************************)
Abs(x) == IF x < 0 THEN -x ELSE x

Sign(x) == IF x < 0 THEN -1 ELSE IF x > 0 THEN 1 ELSE 0

RECURSIVE GCD(_, _)
GCD(a, b) == IF b = 0 THEN a ELSE GCD(b, a % b)

Norm(n, d) ==
    LET s == IF d < 0 THEN -1 ELSE 1
        g == GCD(Abs(n), Abs(d))
    IN  [k |-> "fin", n |-> (s * n) \div g, d |-> (s * d) \div g]

FromInt(i) == [k |-> "fin", n |-> i, d |-> 1]

Inf(s) == [k |-> "inf", n |-> s, d |-> 0]

NaN == [k |-> "nan", n |-> 0, d |-> 0]

\* a < b on float64: every comparison with nan is false.
FLt(a, b) ==
    IF a.k = "nan" \/ b.k = "nan" THEN FALSE
    ELSE IF a.k = "inf" THEN a.n < 0 /\ ~(b.k = "inf" /\ b.n < 0)
    ELSE IF b.k = "inf" THEN b.n > 0
    ELSE a.n * b.d < b.n * a.d

\* a <= b on float64: false when either is nan.
FLe(a, b) == a.k # "nan" /\ b.k # "nan" /\ ~FLt(b, a)

\* a * b on float64.
FMul(a, b) ==
    IF a.k = "nan" \/ b.k = "nan" THEN NaN
    ELSE IF a.k = "inf" \/ b.k = "inf"
         THEN IF a.n = 0 \/ b.n = 0 THEN NaN ELSE Inf(Sign(a.n) * Sign(b.n))
    ELSE Norm(a.n * b.n, a.d * b.d)

\* a / b on numpy float64: a zero divisor gives inf or nan, never an exception.
NpDiv(a, b) ==
    IF a.k = "nan" \/ b.k = "nan" THEN NaN
    ELSE IF a.k = "inf"
         THEN IF b.k = "inf" THEN NaN
              ELSE Inf(a.n * (IF b.n < 0 THEN -1 ELSE 1))
    ELSE IF b.k = "inf" THEN FromInt(0)
    ELSE IF b.n = 0 THEN (IF a.n = 0 THEN NaN ELSE Inf(Sign(a.n)))
    ELSE Norm(a.n * b.d, a.d * b.n)

\* Python's min(a, b): b when b < a, else a.
PyMin(a, b) == IF FLt(b, a) THEN b ELSE a

Return(v) == [k |-> "return", v |-> v]

Raise(exc, at) == [k |-> "raise", exc |-> exc, at |-> at]

(***************************************************************************)
(* numpy helpers.                                                          *)
(***************************************************************************)
RECURSIVE SumSeq(_)
SumSeq(s) == IF Len(s) = 0 THEN 0 ELSE Head(s) + SumSeq(Tail(s))

np_diff_prepend(a) == [i \in 1..Len(a) |-> IF i = 1 THEN 0 ELSE a[i] - a[i - 1]]

\* np.diff: out[i] = a[i+1] - a[i]; empty for fewer than two samples.
np_diff(a) == [i \in 1..(Len(a) - 1) |-> a[i + 1] - a[i]]

np_mean_off_by_one(a) == IF Len(a) = 0 THEN NaN ELSE Norm(SumSeq(a), Len(a) + 1)

\* np.mean: nan for an empty array (numpy warns, does not raise).
np_mean(a) == IF Len(a) = 0 THEN NaN ELSE Norm(SumSeq(a), Len(a))

\* First position (0-based) of the greatest element, scanning left to right and
\* replacing the candidate only by a strictly greater element.
RECURSIVE ArgMaxFrom(_, _, _)
ArgMaxFrom(s, i, best) ==
    IF i > Len(s) THEN best - 1
    ELSE ArgMaxFrom(s, i + 1, IF s[i] > s[best] THEN i ELSE best)

RECURSIVE ArgMaxLastFrom(_, _, _)
ArgMaxLastFrom(s, i, best) ==
    IF i > Len(s) THEN best - 1
    ELSE ArgMaxLastFrom(s, i + 1, IF s[i] >= s[best] THEN i ELSE best)

np_argmax_last(s) ==
    IF Len(s) = 0 THEN Raise("ValueError", "argmax")
    ELSE Return(ArgMaxLastFrom(s, 2, 1))

\* np.argmax: raises ValueError on an empty sequence, else the first maximum.
np_argmax(s) ==
    IF Len(s) = 0 THEN Raise("ValueError", "argmax")
    ELSE Return(ArgMaxFrom(s, 2, 1))

\* np.argmin: the first minimum, i.e. the first maximum of the negated array.
np_argmin(s) ==
    IF Len(s) = 0 THEN Raise("ValueError", "argmin")
    ELSE Return(ArgMaxFrom([i \in 1..Len(s) |-> -s[i]], 2, 1))

\* np.ones(n): n float ones; a negative n raises ValueError.
np_ones(n) ==
    IF n < 0 THEN Raise("ValueError", "ones")
    ELSE Return([i \in 1..n |-> FromInt(1)])

RECURSIVE DotFrom(_, _, _, _)
\* sum over j >= j0 of a[j] * v[k - j], the products taken inside both arrays;
\* k, j 0-based.
DotFrom(a, v, k, j) ==
    IF j >= Len(a) THEN FromInt(0)
    ELSE LET rest == DotFrom(a, v, k, j + 1)
         IN  IF k - j >= 0 /\ k - j < Len(v)
             THEN LET p == FMul(a[j + 1], v[k - j + 1])
                  IN  Norm(p.n * rest.d + rest.n * p.d, p.d * rest.d)
             ELSE rest

\* Element k (0-based) of the full discrete convolution of a and v.
ConvFull(a, v, k) == DotFrom(a, v, k, 0)

SameOffsetCausal(n2) == 0

\* Mode "same": the output starts n2 - 1 - (n2 div 2) samples into the full
\* convolution, n2 the length of the shorter array.
SameOffset(n2) == n2 - 1 - (n2 \div 2)

np_convolve_same_unchecked(a, v) ==
    LET long  == IF Len(v) > Len(a) THEN v ELSE a
        short == IF Len(v) > Len(a) THEN a ELSE v
    IN  Return([i \in 1..Len(long) |->
                  ConvFull(long, short, (i - 1) + SameOffset(Len(short)))])

\* np.convolve(a, v, mode="same"): the arrays are swapped so that the first is
\* the longer, an empty array raises ValueError, and the result has the length
\* of the longer array.
np_convolve_same(a, v) ==
    LET long  == IF Len(v) > Len(a) THEN v ELSE a
        short == IF Len(v) > Len(a) THEN a ELSE v
    IN  IF Len(long) = 0 THEN Raise("ValueError", "convolve")
        ELSE IF Len(short) = 0 THEN Raise("ValueError", "convolve")
        ELSE Return([i \in 1..Len(long) |->
                       ConvFull(long, short, (i - 1) + SameOffset(Len(short)))])

(***************************************************************************)
(* The functions of the source.                                            *)
(***************************************************************************)
\* compute_sampling_rate: fs = 1.0 / mean(diff(time)), with no check of dt.
compute_sampling_rate(t) ==
    LET dt == np_mean(np_diff(t))
    IN  Return(NpDiv(FromInt(1), dt))

\* moving_average: convolution of the signal with window ones, each 1/window.
moving_average(signal, window) ==
    LET ones == np_ones(window)
    IN  IF ones.k = "raise" THEN ones
        ELSE LET kernel == [i \in 1..Len(ones.v) |->
                               NpDiv(ones.v[i], FromInt(window))]
                 sig == [i \in 1..Len(signal) |-> FromInt(signal[i])]
             IN  np_convolve_same(sig, kernel)

fc_clip_unclamped(fc, nyquist) == fc

\* fc_clipped = min(fc, 0.99 * nyquist)
fc_clip(fc, nyquist) == PyMin(fc, FMul(Norm(99, 100), nyquist))

\* scipy's butter rejects a digital critical frequency with Wn <= 0 or
\* Wn >= 1; both comparisons are false for nan, which is therefore let through.
ButterRejects(Wn) == FLe(Wn, FromInt(0)) \/ FLe(FromInt(1), Wn)

\* filtfilt pads with 3 * max(len(a), len(b)) samples, order + 1 coefficients
\* each, and needs a signal longer than that.
PadLen(order) == 3 * (order + 1)

\* butterworth_lowpass.  The filtered samples are not computed: a return is
\* the term filtfilt(butter(order, Wn), signal), given by the signal, the
\* normalized cutoff and the order; it has the length of the signal.
\* rate_is_np says that fs is a numpy float64 (what compute_sampling_rate
\* returns) and not a Python number: fc_clipped / nyquist with a zero nyquist
\* raises ZeroDivisionError on Python numbers and gives nan or inf on float64.
butterworth_lowpass(signal, rate, rate_is_np, fc, order) ==
    LET nyquist    == NpDiv(rate, FromInt(2))
        fc_clipped == fc_clip(fc, nyquist)
        Wn         == NpDiv(fc_clipped, nyquist)
    IN  IF ~rate_is_np /\ nyquist.k = "fin" /\ nyquist.n = 0
        THEN Raise("ZeroDivisionError", "divide")
        ELSE IF ButterRejects(Wn) THEN Raise("ValueError", "butter")
        ELSE IF Len(signal) <= PadLen(order) THEN Raise("ValueError", "filtfilt")
        ELSE Return([signal |-> signal, Wn |-> Wn, order |-> order])

\* detect_heel_toe: returns <<heel_idx + 1, toe_idx + 1, heel_time, toe_time>>.
detect_heel_toe(f, t) ==
    LET slope == np_diff(f)
        heel  == np_argmax(slope)
        toe   == np_argmin(slope)
    IN  IF heel.k = "raise" THEN heel
        ELSE IF toe.k = "raise" THEN toe
        ELSE IF heel.v + 1 >= Len(t) THEN Raise("IndexError", "time[heel_idx + 1]")
        ELSE IF toe.v + 1 >= Len(t) THEN Raise("IndexError", "time[toe_idx + 1]")
        ELSE Return(<<heel.v + 1, toe.v + 1, t[heel.v + 2], t[toe.v + 2]>>)

\* detect_heel_toe on an array of n samples whose values the model does not
\* have (the output of filtfilt): every outcome the function has on some array
\* of that length, the two slope positions being any of 0..n-2.
detect_heel_toe_outcomes(n, t) ==
    IF n < 2 THEN {Raise("ValueError", "argmax")}
    ELSE {IF h + 1 >= Len(t) THEN Raise("IndexError", "time[heel_idx + 1]")
          ELSE IF o + 1 >= Len(t) THEN Raise("IndexError", "time[toe_idx + 1]")
          ELSE Return(<<h + 1, o + 1, t[h + 2], t[o + 2]>>) :
             h \in 0..(n - 2), o \in 0..(n - 2)}

(***************************************************************************)
(* Inputs.                                                                 *)
(***************************************************************************)
SeqsUpTo(S, n) == UNION {[1..m -> S] : m \in 0..n}

ForceVals == -MaxVal..MaxVal

Forces == SeqsUpTo(ForceVals, MaxLen)

Times == SeqsUpTo(0..MaxT, MaxLen)

\* Strictly increasing timestamps, the time series of the data model.
IncTimes ==
    {t \in SeqsUpTo(0..MaxT, MaxLen + 1) :
        \A i \in 1..(Len(t) - 1) : t[i] < t[i + 1]}

Windows == -1..MaxWindow

FlatSignals == {[i \in 1..n |-> v] : n \in 0..MaxSigLen, v \in ForceVals}

Rates == {FromInt(n) : n \in -MaxFs..MaxFs} \cup {Inf(1), NaN}

Cutoffs == {FromInt(c) : c \in -1..MaxFc}

Orders == 1..MaxOrder

\* A force column of n samples: 1 on the w samples from a on, else 0.
Pulse(n, a, w) == [i \in 1..n |-> IF a <= i /\ i < a + w THEN 1 ELSE 0]

\* What load_fsr_csv can return: two columns of one length, the time column
\* uniformly sampled (step 0: duplicate timestamps).
Datasets ==
    {[time |-> [i \in 1..n |-> (i - 1) * step], force |-> Pulse(n, a, w)] :
        n \in 0..MaxDataLen, step \in 0..MaxStep,
        a \in 1..MaxPulse, w \in 1..MaxPulse}

NoCall == [fn |-> "none"]

NoRet == [k |-> "none"]

Init ==
    /\ pc = "idle"
    /\ call = NoCall
    /\ ret = NoRet
    /\ time = <<>>
    /\ force = <<>>
    /\ fs = NaN
    /\ slope_raw = <<>>
    /\ ma_force = <<>>
    /\ butter_force = <<>>
    /\ detected_on = <<>>
    /\ events = <<>>
    /\ trace = <<>>

mainVars == <<time, force, fs, slope_raw, ma_force, butter_force,
              detected_on, events, trace>>

(***************************************************************************)
(* One call of each function, on inputs drawn from the sets above.         *)
(***************************************************************************)
CallComputeSamplingRate ==
    /\ pc = "idle"
    /\ \E t \in Times :
          /\ call' = [fn |-> "compute_sampling_rate", time |-> t]
          /\ ret' = compute_sampling_rate(t)
    /\ pc' = "returned"
    /\ UNCHANGED mainVars

CallMovingAverage ==
    /\ pc = "idle"
    /\ \E s \in Forces, w \in Windows :
          /\ call' = [fn |-> "moving_average", signal |-> s, window |-> w]
          /\ ret' = moving_average(s, w)
    /\ pc' = "returned"
    /\ UNCHANGED mainVars

CallButterworthLowpass ==
    /\ pc = "idle"
    /\ \E s \in FlatSignals, r \in Rates, b \in BOOLEAN, c \in Cutoffs,
          o \in Orders :
          /\ call' = [fn |-> "butterworth_lowpass", signal |-> s, fs |-> r,
                      fs_is_np |-> b, fc |-> c, order |-> o]
          /\ ret' = butterworth_lowpass(s, r, b, c, o)
    /\ pc' = "returned"
    /\ UNCHANGED mainVars

CallDetectHeelToe ==
    /\ pc = "idle"
    /\ \E f \in Forces, t \in IncTimes :
          /\ Abs(Len(t) - Len(f)) <= 1
          /\ call' = [fn |-> "detect_heel_toe", force |-> f, time |-> t]
          /\ ret' = detect_heel_toe(f, t)
    /\ pc' = "returned"
    /\ UNCHANGED mainVars

(***************************************************************************)
(* main(), one action per statement group, in the order of the script.     *)
(* trace lists the steps entered so far; a step that raises ends the run   *)
(* (pc = "error") with the exception in ret.                               *)
(***************************************************************************)
MainSetWorkingDirectory ==
    /\ pc = "idle"
    /\ pc' = "load"
    /\ call' = [fn |-> "main"]
    /\ UNCHANGED <<ret, mainVars>>

MainLoad ==
    /\ pc = "load"
    /\ \E ds \in Datasets :
          /\ time' = ds.time
          /\ force' = ds.force
    /\ trace' = Append(trace, "load_fsr_csv")
    /\ pc' = "rate"
    /\ UNCHANGED <<call, ret, fs, slope_raw, ma_force, butter_force, events,
                   detected_on>>

\* pandas cannot read the file, or a column is missing.
MainLoadFails ==
    /\ pc = "load"
    /\ \E e \in {"FileNotFoundError", "KeyError"} :
          ret' = Raise(e, "load_fsr_csv")
    /\ trace' = Append(trace, "load_fsr_csv")
    /\ pc' = "error"
    /\ UNCHANGED <<call, time, force, fs, slope_raw, ma_force, butter_force,
                   events, detected_on>>

MainSamplingRate ==
    /\ pc = "rate"
    /\ fs' = compute_sampling_rate(time).v
    /\ trace' = Append(trace, "compute_sampling_rate")
    /\ pc' = "plot_raw"
    /\ UNCHANGED <<call, ret, time, force, slope_raw, ma_force, butter_force,
                   events, detected_on>>

MainPlotRaw ==
    /\ pc = "plot_raw"
    /\ trace' = Append(trace, "show_raw")
    /\ pc' = "plot_slope"
    /\ UNCHANGED <<call, ret, time, force, fs, slope_raw, ma_force,
                   butter_force, events, detected_on>>

MainPlotSlope ==
    /\ pc = "plot_slope"
    /\ slope_raw' = np_diff(force)
    /\ trace' = Append(trace, "show_slope")
    /\ pc' = "moving_average"
    /\ UNCHANGED <<call, ret, time, force, fs, ma_force, butter_force, events,
                   detected_on>>

MainMovingAverage ==
    /\ pc = "moving_average"
    /\ LET r == moving_average(force, MainWindow)
       IN  IF r.k = "raise"
           THEN /\ ret' = r
                /\ pc' = "error"
                /\ UNCHANGED ma_force
           ELSE /\ ma_force' = r.v
                /\ pc' = "plot_ma"
                /\ UNCHANGED ret
    /\ trace' = Append(trace, "moving_average")
    /\ UNCHANGED <<call, time, force, fs, slope_raw, butter_force, events,
                   detected_on>>

\* plt.plot(time, ma_force) raises when the two lengths differ.
MainPlotMovingAverage ==
    /\ pc = "plot_ma"
    /\ IF Len(ma_force) # Len(time)
       THEN /\ ret' = Raise("ValueError", "plot")
            /\ pc' = "error"
       ELSE /\ pc' = "butterworth"
            /\ UNCHANGED ret
    /\ trace' = Append(trace, "show_moving_average")
    /\ UNCHANGED <<call, time, force, fs, slope_raw, ma_force, butter_force,
                   events, detected_on>>

\* fs is the numpy float64 that compute_sampling_rate returned.
MainButterworth ==
    /\ pc = "butterworth"
    /\ LET r == butterworth_lowpass(force, fs, TRUE, FromInt(MainFc), MainOrder)
       IN  IF r.k = "raise"
           THEN /\ ret' = r
                /\ pc' = "error"
                /\ UNCHANGED butter_force
           ELSE /\ butter_force' = r.v
                /\ pc' = "plot_butter"
                /\ UNCHANGED ret
    /\ trace' = Append(trace, "butterworth_lowpass")
    /\ UNCHANGED <<call, time, force, fs, slope_raw, ma_force, events,
                   detected_on>>

MainPlotButterworth ==
    /\ pc = "plot_butter"
    /\ trace' = Append(trace, "show_butterworth")
    /\ pc' = "detect"
    /\ UNCHANGED <<call, ret, time, force, fs, slope_raw, ma_force,
                   butter_force, events, detected_on>>

MainDetectOnRaw ==
    /\ pc = "detect"
    /\ LET r == detect_heel_toe(force, time)
       IN  IF r.k = "raise"
           THEN /\ ret' = r
                /\ pc' = "error"
                /\ UNCHANGED events
           ELSE /\ events' = r.v
                /\ pc' = "plot_events"
                /\ UNCHANGED ret
    /\ detected_on' = force
    /\ trace' = Append(trace, "detect_heel_toe")
    /\ UNCHANGED <<call, time, force, fs, slope_raw, ma_force, butter_force>>

\* detect_heel_toe(butter_force, time): the samples of butter_force are not
\* computed, so the detector's outcome is any it has on an array of that
\* length; detected_on records the array it was given.
MainDetect ==
    /\ pc = "detect"
    /\ \E r \in detect_heel_toe_outcomes(Len(butter_force.signal), time) :
          IF r.k = "raise"
          THEN /\ ret' = r
               /\ pc' = "error"
               /\ UNCHANGED events
          ELSE /\ events' = r.v
               /\ pc' = "plot_events"
               /\ UNCHANGED ret
    /\ detected_on' = butter_force
    /\ trace' = Append(trace, "detect_heel_toe")
    /\ UNCHANGED <<call, time, force, fs, slope_raw, ma_force, butter_force>>

MainPlotEvents ==
    /\ pc = "plot_events"
    /\ trace' = Append(trace, "show_events")
    /\ pc' = "done"
    /\ UNCHANGED <<call, ret, time, force, fs, slope_raw, ma_force,
                   butter_force, events, detected_on>>

Next ==
    \/ CallComputeSamplingRate
    \/ CallMovingAverage
    \/ CallButterworthLowpass
    \/ CallDetectHeelToe
    \/ MainSetWorkingDirectory
    \/ MainLoad
    \/ MainLoadFails
    \/ MainSamplingRate
    \/ MainPlotRaw
    \/ MainPlotSlope
    \/ MainMovingAverage
    \/ MainPlotMovingAverage
    \/ MainButterworth
    \/ MainPlotButterworth
    \/ MainDetect
    \/ MainPlotEvents

Spec == Init /\ [][Next]_vars

(***************************************************************************)
(* Properties.                                                             *)
(***************************************************************************)
IsCall(fn) == pc = "returned" /\ call.fn = fn

Returned == ret.k = "return"

Raised == ret.k = "raise"

\* slope[p] of the code, p 0-based: force[p + 1] - force[p].
SlopeAt(f, p) == f[p + 2] - f[p + 1]

SlopePositions(f) == 0..(Len(f) - 2)

IsFirstMaxSlope(f, p) ==
    /\ p \in SlopePositions(f)
    /\ \A q \in SlopePositions(f) :
          /\ SlopeAt(f, q) <= SlopeAt(f, p)
          /\ q < p => SlopeAt(f, q) < SlopeAt(f, p)

IsFirstMinSlope(f, p) ==
    /\ p \in SlopePositions(f)
    /\ \A q \in SlopePositions(f) :
          /\ SlopeAt(f, q) >= SlopeAt(f, p)
          /\ q < p => SlopeAt(f, q) > SlopeAt(f, p)

StrictlyIncreasing(t) == \A i \in 1..(Len(t) - 1) : t[i] < t[i + 1]

\* Sum of s over the 0-based positions lo..hi that lie inside the sequence.
RECURSIVE WindowSum(_, _, _)
WindowSum(s, lo, hi) ==
    IF lo > hi THEN 0
    ELSE (IF lo >= 0 /\ lo < Len(s) THEN s[lo + 1] ELSE 0)
         + WindowSum(s, lo + 1, hi)

Positive(x) == x.k = "fin" /\ x.n > 0

\* C1: for a force series of length N >= 2 and a time series of the same
\* length, detect_heel_toe returns heel = (lowest position of the greatest
\* first difference) + 1, toe = (lowest position of the least first
\* difference) + 1, and the timestamps time[heel], time[toe].
C1_FirstExtremeSlopes ==
    (IsCall("detect_heel_toe") /\ Len(call.force) >= 2
        /\ Len(call.time) = Len(call.force))
    => /\ Returned
       /\ IsFirstMaxSlope(call.force, ret.v[1] - 1)
       /\ IsFirstMinSlope(call.force, ret.v[2] - 1)
       /\ ret.v[3] = call.time[ret.v[1] + 1]
       /\ ret.v[4] = call.time[ret.v[2] + 1]

\* A call in which the greatest slope occurs twice and heel and toe differ.
C1_Witness ==
    /\ IsCall("detect_heel_toe")
    /\ Len(call.time) = Len(call.force)
    /\ Returned
    /\ ret.v[1] # ret.v[2]
    /\ \E q \in SlopePositions(call.force) :
          /\ q > ret.v[1] - 1
          /\ SlopeAt(call.force, q) = SlopeAt(call.force, ret.v[1] - 1)

\* C2: for strictly increasing timestamps, N >= 2, compute_sampling_rate
\* returns a finite fs > 0 with 1/fs = (time[N-1] - time[0]) / (N - 1).
C2_RateIsInverseMeanStep ==
    (IsCall("compute_sampling_rate") /\ Len(call.time) >= 2
        /\ StrictlyIncreasing(call.time))
    => /\ Returned
       /\ Positive(ret.v)
       /\ ret.v.d * (Len(call.time) - 1)
            = ret.v.n * (call.time[Len(call.time)] - call.time[1])

\* Unevenly spaced increasing timestamps whose rate is no integer.
C2_Witness ==
    /\ IsCall("compute_sampling_rate")
    /\ Len(call.time) >= 3
    /\ StrictlyIncreasing(call.time)
    /\ call.time[2] - call.time[1] # call.time[3] - call.time[2]
    /\ Returned
    /\ ret.v.k = "fin"
    /\ ret.v.n > 1
    /\ ret.v.d > 1

\* C3: for a signal of length N >= 1 and a window W >= 1, W > N included,
\* moving_average returns a sequence of length exactly N.
C3_SameLength ==
    (IsCall("moving_average") /\ Len(call.signal) >= 1 /\ call.window >= 1)
    => /\ Returned
       /\ Len(ret.v) = Len(call.signal)

\* C4: for 1 <= W <= N, moving_average returns N samples, output[i] = (sum of
\* the signal over the window positions inside 0..N-1) / W, the window being
\* i - W div 2 .. i + (W - 1) div 2 (for odd W: i - (W-1)/2 .. i + (W-1)/2);
\* for W = 1 the output is the input.
C4_CenteredWindowMean ==
    (IsCall("moving_average") /\ call.window >= 1
        /\ call.window <= Len(call.signal))
    => /\ Returned
       /\ Len(ret.v) = Len(call.signal)
       /\ \A i \in 0..(Len(call.signal) - 1) :
             ret.v[i + 1] =
                Norm(WindowSum(call.signal, i - (call.window \div 2),
                               i + ((call.window - 1) \div 2)),
                     call.window)
       /\ call.window = 1 =>
             \A i \in 1..Len(call.signal) : ret.v[i] = FromInt(call.signal[i])

\* A window of three over four samples: both ends are partial sums over W.
C4_Witness ==
    /\ IsCall("moving_average")
    /\ call.window = 3
    /\ Len(call.signal) = 4
    /\ Returned
    /\ ret.v[1] = Norm(2, 3)
    /\ ret.v[2] = FromInt(1)
    /\ ret.v[4] = Norm(1, 3)

\* C5: for fs > 0, fc > 0 and order >= 1, butterworth_lowpass designs with
\* Wn = 0.99 when fc >= 0.99 * fs/2 (so whenever fc >= fs/2) and Wn = fc/(fs/2)
\* otherwise, 0 < Wn < 1, and the parameters raise nothing: the call returns,
\* or the signal is no longer than filtfilt's padding and filtfilt raises.
C5_CutoffClamped ==
    (IsCall("butterworth_lowpass") /\ Positive(call.fs) /\ Positive(call.fc)
        /\ call.order >= 1)
    => LET clamp == 200 * call.fc.n * call.fs.d >= 99 * call.fs.n * call.fc.d
           above == 2 * call.fc.n * call.fs.d >= call.fs.n * call.fc.d
       IN  /\ above => clamp
           /\ IF Len(call.signal) > 3 * (call.order + 1)
              THEN /\ Returned
                   /\ ret.v.Wn.k = "fin"
                   /\ 0 < ret.v.Wn.n
                   /\ ret.v.Wn.n < ret.v.Wn.d
                   /\ IF clamp
                      THEN ret.v.Wn.n * 100 = 99 * ret.v.Wn.d
                      ELSE ret.v.Wn.n * call.fs.n * call.fc.d
                              = ret.v.Wn.d * 2 * call.fc.n * call.fs.d
              ELSE Raised /\ ret.at = "filtfilt"

\* A cutoff at or above Nyquist, clamped to 0.99, on a signal long enough.
C5_Witness ==
    /\ IsCall("butterworth_lowpass")
    /\ Positive(call.fs)
    /\ Positive(call.fc)
    /\ 2 * call.fc.n * call.fs.d >= call.fs.n * call.fc.d
    /\ Returned
    /\ ret.v.Wn = Norm(99, 100)

\* C6: for a force series of length 0 or 1, detect_heel_toe raises (the
\* ValueError of argmax on the empty slope sequence) and returns nothing.
C6_ShortForceRaises ==
    (IsCall("detect_heel_toe") /\ Len(call.force) < 2)
    => /\ Raised
       /\ ret.exc = "ValueError"

\* One force sample with two timestamps: only the empty slope stops the call.
C6_Witness ==
    /\ IsCall("detect_heel_toe")
    /\ Len(call.force) = 1
    /\ Len(call.time) = 2
    /\ Raised

\* C7: for a time series of length >= 2 whose mean step is <= 0,
\* compute_sampling_rate raises; no rate that is non-positive, infinite or nan
\* is returned.
C7_BadStepRejected ==
    (IsCall("compute_sampling_rate") /\ Len(call.time) >= 2)
    => IF SumSeq(np_diff(call.time)) <= 0
       THEN Raised
       ELSE Returned /\ Positive(ret.v)

\* C8: with fs <= 0 or order < 1, butterworth_lowpass raises and returns no
\* filtered sequence.
C8_BadRateOrOrderRejected ==
    (IsCall("butterworth_lowpass")
        /\ ((call.fs.k = "fin" /\ call.fs.n <= 0) \/ call.order < 1))
    => Raised

\* C9: with window <= 0, moving_average raises and returns no sequence.
C9_BadWindowRaises ==
    (IsCall("moving_average") /\ call.window <= 0)
    => /\ Raised
       /\ ret.exc = "ValueError"

\* A zero window over a signal that is not empty.
C9_Witness ==
    /\ IsCall("moving_average")
    /\ call.window = 0
    /\ Len(call.signal) >= 1
    /\ Raised

\* The rank of the stage a step of main belongs to: 1 Loader, 2 Sampling Rate
\* Estimator, 3 Smoothing Filters, 4 Event Detector, 5 Presentation.
StageRank(step) ==
    CASE step = "load_fsr_csv" -> 1
      [] step = "compute_sampling_rate" -> 2
      [] step \in {"moving_average", "butterworth_lowpass"} -> 3
      [] step = "detect_heel_toe" -> 4
      [] OTHER -> 5

MainSteps == <<"load_fsr_csv", "compute_sampling_rate", "show_raw",
               "show_slope", "moving_average", "show_moving_average",
               "butterworth_lowpass", "show_butterworth", "detect_heel_toe",
               "show_events">>

\* C10 as stated: in every run of main the stages are entered in the order
\* Loader, Sampling Rate Estimator, Smoothing Filters, Event Detector,
\* Presentation; in particular nothing is displayed before the detector is done.
C10_StagesInOrder ==
    /\ \A i, j \in 1..Len(trace) :
          i < j => StageRank(trace[i]) <= StageRank(trace[j])
    /\ \A i \in 1..Len(trace) :
          StageRank(trace[i]) = 5 =>
             \E j \in 1..(i - 1) : trace[j] = "detect_heel_toe"

\* C10 amended: the steps of main are entered in the order load, sampling
\* rate, raw plot, slope plot, moving average, its plot, low-pass, its plot,
\* event detector, event plot: the computing stages are in the stated order
\* and each plot follows the step that made its data.  The low-pass filter is
\* designed from the estimated rate, and the events are those detected on the
\* low-pass output.
C10_StepsInScriptOrder ==
    /\ Len(trace) <= Len(MainSteps)
    /\ \A i \in 1..Len(trace) : trace[i] = MainSteps[i]
    /\ pc \in {"plot_butter", "detect", "plot_events", "done"} =>
          /\ fs = compute_sampling_rate(time).v
          /\ butter_force.signal = force
          /\ butter_force.order = MainOrder
          /\ butter_force.Wn =
                NpDiv(PyMin(FromInt(MainFc),
                            FMul(Norm(99, 100), NpDiv(fs, FromInt(2)))),
                      NpDiv(fs, FromInt(2)))
    /\ pc \in {"plot_events", "done"} =>
          /\ detected_on = butter_force
          /\ events[1] \in 1..(Len(force) - 1)
          /\ events[2] \in 1..(Len(force) - 1)
          /\ events[3] = time[events[1] + 1]
          /\ events[4] = time[events[2] + 1]

\* A complete run: all ten steps, the detector given the low-pass output.
C10_Witness ==
    /\ pc = "done"
    /\ trace = MainSteps
    /\ detected_on = butter_force
    /\ butter_force.signal = force
    /\ events[1] # events[2]

====
